---- MODULE Spec2Model ----
(***************************************************************************)
(* A model of TecKnow/fivewords (src/load_words.py): the word-list loader, *)
(* the heterogram / anagram classifier, the pairwise disjoint-union engine *)
(* (_work_function / _collator_function), the shelf-backed, memoised       *)
(* stage accessors of class FiveWords, its open/close lifecycle, and the   *)
(* result navigator (navigable_map / save_navigable_result).               *)
(*                                                                         *)
(* A word is a sequence of one-character strings; a letter signature       *)
(* (frozenset[str]) is a set of characters; a Python dict is a function    *)
(* whose DOMAIN is its key set; a list is a sequence.                      *)
(***************************************************************************)
EXTENDS Integers, Sequences, FiniteSets, TLC

\* ------------------------------------------------------------------ bounds
\* most lines of the answer list drawn by InitPipe
MaxLines == 2
\* most accessor calls in one behaviour
MaxCalls == 3
\* most items (outer signatures) InitCollate hands to _collator_function
MaxItems == 2
\* most lines of the answer list drawn by InitStages
MaxStageWords == 6
\* most starting points handed to navigable_map directly
MaxStart == 1

\* ------------------------------------------------------------ characters
\* the whitespace str.strip removes
Space == {" "}

\* str.casefold on one character
casefold_char(c) ==
    CASE c = "A" -> "a"
      [] c = "B" -> "b"
      [] OTHER -> c

\* str.casefold: every character case-folded
casefold(word) == [i \in 1..Len(word) |-> casefold_char(word[i])]

RECURSIVE lstrip(_)
\* str.lstrip: leading whitespace removed
lstrip(word) ==
    IF word # <<>> /\ Head(word) \in Space THEN lstrip(Tail(word)) ELSE word

RECURSIVE rstrip(_)
\* str.rstrip: trailing whitespace removed
rstrip(word) ==
    IF word # <<>> /\ word[Len(word)] \in Space
    THEN rstrip(SubSeq(word, 1, Len(word) - 1))
    ELSE word

\* str.strip
strip(word) == rstrip(lstrip(word))

\* frozenset(word): the set of characters of a word
frozenset(word) == {word[i] : i \in 1..Len(word)}

\* a.isdisjoint(b)
isdisjoint(a, b) == a \cap b = {}

\* body(e), with e evaluated once and before body
With(e, body(_)) == CHOOSE y \in {body(x) : x \in {e}} : TRUE

\* ------------------------------------------------------------ dictionaries
\* the empty dict
EmptyDict == [k \in {} |-> {}]

\* defaultdict(set): d[k].update(vs)  (d[k] starts as set() when k is new)
DictUpdate(d, k, vs) ==
    (k :> ((IF k \in DOMAIN d THEN d[k] ELSE {}) \cup vs)) @@ d

\* d[k] = v  (insert or overwrite)
DictSet(d, k, v) == (k :> v) @@ d

\* d.get(k, default)
DictGet(d, k, default) == IF k \in DOMAIN d THEN d[k] ELSE default

\* ------------------------------------------------------------ word lists
\* FiveWords._load_wordlist_url: the text's lines, stripped and case-folded,
\* as a set.  text is the sequence of lines text.splitlines() yields.
_load_wordlist_url(text) == {casefold(strip(text[i])) : i \in 1..Len(text)}

\* FiveWords._combined_word_set
_combined_word_set(a, b) == a \cup b

\* heterogram_words without its filter
heterograms_of_unfiltered(words) == words

\* the filter of FiveWords.heterogram_words
heterograms_of(words) == {word \in words : Len(word) = Cardinality(frozenset(word))}

RECURSIVE anagram_loop(_, _)
\* the loop of FiveWords.anagram_map: working_result[frozenset(word)].add(word)
anagram_loop(words, working_result) ==
    IF words = {} THEN working_result
    ELSE LET word == CHOOSE w \in words : TRUE
         IN With(DictUpdate(working_result, frozenset(word), {word}),
                 LAMBDA updated : anagram_loop(words \ {word}, updated))

\* the body of FiveWords.anagram_map over the heterogram set
anagrams_of(hets) == anagram_loop(hets, EmptyDict)

\* ------------------------------------------------ disjoint-union engine
RECURSIVE work_loop(_, _, _)
\* the loop of _work_function over pair_mates
work_loop(item, pair_mates, working_result) ==
    IF pair_mates = {} THEN working_result
    ELSE LET pair_mate == CHOOSE m \in pair_mates : TRUE
             new_pair == pair_mate \cup item
         IN With(DictUpdate(working_result, new_pair, {{item, pair_mate}}),
                 LAMBDA updated : work_loop(item, pair_mates \ {pair_mate}, updated))

\* _work_function pairing the item with every mate, disjoint or not
_work_function_unfiltered(global_heterograms, item) ==
    work_loop(item, global_heterograms, EmptyDict)

\* _work_function that never pairs a signature with itself
_work_function_skip_self(global_heterograms, item) ==
    work_loop(item, {mate \in global_heterograms : isdisjoint(mate, item) /\ mate # item},
              EmptyDict)

\* _work_function(item), with global_heterograms as a parameter
_work_function(global_heterograms, item) ==
    LET pair_mates == {mate \in global_heterograms : isdisjoint(mate, item)}
    IN work_loop(item, pair_mates, EmptyDict)

RECURSIVE dict_merge(_, _, _)
\* for k, v in update_dict.items(): working_result[k].update(v)
dict_merge(working_result, update_dict, keys) ==
    IF keys = {} THEN working_result
    ELSE LET k == CHOOSE x \in keys : TRUE
         IN With(DictUpdate(working_result, k, update_dict[k]),
                 LAMBDA updated : dict_merge(updated, update_dict, keys \ {k}))

\* the body of the coordinator's for loop for one update_dict
merge_update(working_result, update_dict) ==
    dict_merge(working_result, update_dict, DOMAIN update_dict)

RECURSIVE collate_loop(_, _, _)
\* the coordinator's loop over the per-item results, one item after another
collate_loop(combinations, items, working_result) ==
    IF items = {} THEN working_result
    ELSE LET item == CHOOSE i \in items : TRUE
         IN With(merge_update(working_result, _work_function(combinations, item)),
                 LAMBDA updated : collate_loop(combinations, items \ {item}, updated))

\* _collator_function(combinations, items) as one step
_collator_function(combinations, items) ==
    collate_loop(combinations, items, EmptyDict)

\* ------------------------------------------------------------ the store
\* the value_name of every decorated accessor, in pipeline order
ValueNames == {"answer_words", "allowed_guess_words", "all_words_set",
               "heterogram_set", "anagram_map", "two_word_map",
               "three_word_map", "four_word_map", "five_word_map"}

\* the accessors the store specifications call directly; the others run
\* as their upstream stages
CalledNames == {"answer_words", "all_words_set", "anagram_map", "two_word_map",
                "five_word_map"}

\* times_value = f"{value_name}_times"
times_value(value_name) ==
    CASE value_name = "answer_words" -> "answer_words_times"
      [] value_name = "allowed_guess_words" -> "allowed_guess_words_times"
      [] value_name = "all_words_set" -> "all_words_set_times"
      [] value_name = "heterogram_set" -> "heterogram_set_times"
      [] value_name = "anagram_map" -> "anagram_map_times"
      [] value_name = "two_word_map" -> "two_word_map_times"
      [] value_name = "three_word_map" -> "three_word_map_times"
      [] value_name = "four_word_map" -> "four_word_map_times"
      [] value_name = "five_word_map" -> "five_word_map_times"

\* The ways an accessor is called.  functools.cache keys a call by its
\* arguments as written, so f(), f(False) and f(True) are three different
\* cache keys (the keyword spellings f(force=...) are two more keys that
\* behave like the positional ones and are not drawn here).
CallForms == {"()", "(False)", "(True)"}

\* the value the parameter force takes for a call form (default False)
ForceOf(form) == form = "(True)"

VARIABLES
    answer_text,   \* the lines served at answer_url
    guess_text,    \* the lines served at guess_url
    shelf_state,   \* self.shelf: "none" (None), "open" or "closed"
    shelf,         \* the shelf file's entries: key -> value
    memo,          \* the functools.cache of the wrappers: <<value_name, form>> -> value
    computes,      \* per value_name, how many computations have completed
    ncalls,        \* accessor calls made so far
    foreign,       \* the keys whose entry was not written by a wrapper
    last           \* what the last step did

svars == <<answer_text, guess_text, shelf_state, shelf, memo, computes, ncalls,
           foreign, last>>

\* one run of _collator_function, step by step
VARIABLES
    combinations,    \* the inner collection, the pool's initargs
    items,           \* the outer collection in its iteration order
    chunksize,       \* the chunksize argument; 0 stands for None
    cpc,             \* the coordinator: "idle", "start", "merge" or "done"
    chunks,          \* the chunks executor.map submitted, in order
    next_task,       \* index of the next chunk on the call queue
    wpc,             \* per worker: "new", "idle" or "busy"
    wglobal,         \* per worker: global_heterograms (None while wpc = "new")
    wtask,           \* per worker: the chunk it is running, 0 for none
    results,         \* finished chunk index -> its list of update_dicts
    merged,          \* how many chunks' results the for loop has consumed
    working_result,  \* the coordinator's defaultdict(set)
    collated         \* what _collator_function returned

cvars == <<combinations, items, chunksize, cpc, chunks, next_task, wpc, wglobal,
           wtask, results, merged, working_result, collated>>

\* one run of navigable_map, step by step
VARIABLES
    order,            \* the order in which this process iterates a set
    npc,              \* navigable_map: "idle", "loop", "done" or "raised"
    nsource,          \* who called it: "navigable_map" or "save_navigable_result"
    starting_points,  \* the starting points in the order they were iterated
    work_queue,       \* the deque, left end first
    results_dict,     \* the visited map: signature -> its stage map value
    lookups,          \* the signatures looked up in a stage map, in order
    nlast,            \* the last expansion: the signature and the parts pushed
    nerror            \* the exception that ended the run, "" for none

nvars == <<order, npc, nsource, starting_points, work_queue, results_dict, lookups,
           nlast, nerror>>

vars == <<svars, cvars, nvars>>

\* ------------------------------------------------ one call, as a fold
\* The state an accessor call runs in and leaves behind.  invoked lists the
\* value_names whose func was entered, computed the [name, value] pairs
\* their funcs returned; net says whether requests.get succeeds during the
\* call, tick how far perf_counter_ns advances between two readings.
CallState(net, tick) ==
    [shelf |-> shelf, memo |-> memo, shelf_state |-> shelf_state,
     answer_text |-> answer_text, guess_text |-> guess_text,
     net |-> net, tick |-> tick, now |-> 0,
     invoked |-> <<>>, computed |-> <<>>, raised |-> FALSE, ret |-> {}]

\* an exception leaves the frame
Raise(st) == [st EXCEPT !.raised = TRUE]

\* perf_counter_ns(): the clock has moved on since the last reading
perf_counter_ns(st) == [st EXCEPT !.now = @ + st.tick]

\* requests.get(url).text.splitlines(), then _load_wordlist_url's frozenset
fetch(st, text) ==
    IF st.net THEN [st EXCEPT !.ret = _load_wordlist_url(text)] ELSE Raise(st)

\* ------------------------------------------------ the decorated accessors
RECURSIVE wrapper(_, _, _)

\* FiveWords.answer_words(force)
answer_words(form, st) == wrapper("answer_words", form, st)

\* FiveWords.guess_words(force)
guess_words(form, st) == wrapper("allowed_guess_words", form, st)

\* all_words decorated with the value_name of answer_words
all_words_wrong_name(form, st) == wrapper("answer_words", form, st)

\* FiveWords.all_words(force)
all_words(form, st) == wrapper("all_words_set", form, st)

\* FiveWords.heterogram_words(force)
heterogram_words(form, st) == wrapper("heterogram_set", form, st)

\* FiveWords.anagram_map(force)
anagram_map(form, st) == wrapper("anagram_map", form, st)

\* FiveWords.two_word_map(force)
two_word_map(form, st) == wrapper("two_word_map", form, st)

\* FiveWords.three_word_map(force)
three_word_map(form, st) == wrapper("three_word_map", form, st)

\* FiveWords.four_word_map(force)
four_word_map(form, st) == wrapper("four_word_map", form, st)

\* FiveWords.five_word_map(force)
five_word_map(form, st) == wrapper("five_word_map", form, st)

\* the undecorated FiveWords.answer_words
func_answer_words(st) == fetch(st, st.answer_text)

\* the undecorated FiveWords.guess_words
func_guess_words(st) == fetch(st, st.guess_text)

\* the undecorated FiveWords.all_words
func_all_words(st) ==
    With(answer_words("()", st),
         LAMBDA a : With(guess_words("()", a),
         LAMBDA g : IF g.raised THEN g
                    ELSE [g EXCEPT !.ret = _combined_word_set(a.ret, g.ret)]))

\* the undecorated FiveWords.heterogram_words
func_heterogram_words(st) ==
    With(all_words("()", st),
         LAMBDA w : IF w.raised THEN w ELSE [w EXCEPT !.ret = heterograms_of(w.ret)])

\* the undecorated FiveWords.anagram_map
func_anagram_map(st) ==
    With(heterogram_words("()", st),
         LAMBDA h : IF h.raised THEN h ELSE [h EXCEPT !.ret = anagrams_of(h.ret)])

\* two_word_map forcing its upstream stage
func_two_word_map_cascade(st) ==
    With(anagram_map("(True)", st),
         LAMBDA i : With(anagram_map("(True)", i),
         LAMBDA o : IF o.raised THEN o
                    ELSE [o EXCEPT !.ret = _collator_function(DOMAIN i.ret, DOMAIN o.ret)]))

\* the undecorated FiveWords.two_word_map
func_two_word_map(st) ==
    With(anagram_map("()", st),
         LAMBDA i : With(anagram_map("()", i),
         LAMBDA o : IF o.raised THEN o
                    ELSE [o EXCEPT !.ret = _collator_function(DOMAIN i.ret, DOMAIN o.ret)]))

\* the undecorated FiveWords.three_word_map
func_three_word_map(st) ==
    With(two_word_map("()", st),
         LAMBDA i : With(anagram_map("()", i),
         LAMBDA o : IF o.raised THEN o
                    ELSE [o EXCEPT !.ret = _collator_function(DOMAIN i.ret, DOMAIN o.ret)]))

\* four_word_map built from the operands of three_word_map
func_four_word_map_as_three(st) ==
    With(two_word_map("()", st),
         LAMBDA i : With(anagram_map("()", i),
         LAMBDA o : IF o.raised THEN o
                    ELSE [o EXCEPT !.ret = _collator_function(DOMAIN i.ret, DOMAIN o.ret)]))

\* the undecorated FiveWords.four_word_map
func_four_word_map(st) ==
    With(two_word_map("()", st),
         LAMBDA i : With(two_word_map("()", i),
         LAMBDA o : IF o.raised THEN o
                    ELSE [o EXCEPT !.ret = _collator_function(DOMAIN i.ret, DOMAIN o.ret)]))

\* the undecorated FiveWords.five_word_map
func_five_word_map(st) ==
    With(four_word_map("()", st),
         LAMBDA i : With(anagram_map("()", i),
         LAMBDA o : IF o.raised THEN o
                    ELSE [o EXCEPT !.ret = _collator_function(DOMAIN i.ret, DOMAIN o.ret)]))

\* func(self): the function _load_or_calculate(value_name=...) decorates
func(value_name, st) ==
    CASE value_name = "answer_words" -> func_answer_words(st)
      [] value_name = "allowed_guess_words" -> func_guess_words(st)
      [] value_name = "all_words_set" -> func_all_words(st)
      [] value_name = "heterogram_set" -> func_heterogram_words(st)
      [] value_name = "anagram_map" -> func_anagram_map(st)
      [] value_name = "two_word_map" -> func_two_word_map(st)
      [] value_name = "three_word_map" -> func_three_word_map(st)
      [] value_name = "four_word_map" -> func_four_word_map(st)
      [] value_name = "five_word_map" -> func_five_word_map(st)

\* the timing entry overwritten with [elapsed_time]
record_time_reset(entries, value_name, elapsed_time) ==
    DictSet(entries, times_value(value_name), <<elapsed_time>>)

\* self.shelf[times_value] = self.shelf.get(times_value, list()) + [elapsed_time]
record_time(entries, value_name, elapsed_time) ==
    DictSet(entries, times_value(value_name),
            DictGet(entries, times_value(value_name), <<>>) \o <<elapsed_time>>)

\* a wrapper that reads and writes the shelf file whatever self.shelf is
wrapper_body_any_state(value_name, force, st) ==
    IF value_name \notin DOMAIN st.shelf \/ force
    THEN With(perf_counter_ns([st EXCEPT !.invoked = Append(@, value_name)]),
           LAMBDA start : With(func(value_name, start),
           LAMBDA done :
             IF done.raised THEN done
             ELSE With(perf_counter_ns(
                         [done EXCEPT
                            !.shelf = DictSet(@, value_name, done.ret),
                            !.computed = Append(@, [name |-> value_name,
                                                    value |-> done.ret])]),
                  LAMBDA end :
                    With(record_time(end.shelf, value_name, end.now - start.now),
                    LAMBDA written :
                      [end EXCEPT !.shelf = written, !.ret = written[value_name]]))))
    ELSE [st EXCEPT !.ret = st.shelf[value_name]]

\* the uncached wrapper of _load_or_calculate (lines 76-98)
wrapper_body(value_name, force, st) ==
    IF st.shelf_state # "open" THEN Raise(st)
    ELSE IF value_name \notin DOMAIN st.shelf \/ force
    THEN With(perf_counter_ns([st EXCEPT !.invoked = Append(@, value_name)]),
           LAMBDA start : With(func(value_name, start),
           LAMBDA done :
             IF done.raised THEN done
             ELSE With(perf_counter_ns(
                         [done EXCEPT
                            !.shelf = DictSet(@, value_name, done.ret),
                            !.computed = Append(@, [name |-> value_name,
                                                    value |-> done.ret])]),
                  LAMBDA end :
                    With(record_time(end.shelf, value_name, end.now - start.now),
                    LAMBDA written :
                      [end EXCEPT !.shelf = written, !.ret = written[value_name]]))))
    ELSE [st EXCEPT !.ret = st.shelf[value_name]]

\* the wrapper as decorated with @cache (line 74): a call whose arguments
\* were seen before returns the remembered value without running the body;
\* a call that raises is not remembered
wrapper(value_name, form, st) ==
    IF st.raised THEN st
    ELSE IF <<value_name, form>> \in DOMAIN st.memo
    THEN [st EXCEPT !.ret = st.memo[<<value_name, form>>]]
    ELSE With(wrapper_body(value_name, ForceOf(form), st),
              LAMBDA r : IF r.raised THEN r
                         ELSE [r EXCEPT !.memo = DictSet(@, <<value_name, form>>, r.ret)])

\* the accessor that owns a value_name
accessor(value_name, form, st) ==
    CASE value_name = "answer_words" -> answer_words(form, st)
      [] value_name = "allowed_guess_words" -> guess_words(form, st)
      [] value_name = "all_words_set" -> all_words(form, st)
      [] value_name = "heterogram_set" -> heterogram_words(form, st)
      [] value_name = "anagram_map" -> anagram_map(form, st)
      [] value_name = "two_word_map" -> two_word_map(form, st)
      [] value_name = "three_word_map" -> three_word_map(form, st)
      [] value_name = "four_word_map" -> four_word_map(form, st)
      [] value_name = "five_word_map" -> five_word_map(form, st)

\* ------------------------------------------------------------ word lists served
\* w("ab") written out: a word as a sequence of characters
ab == <<"a", "b">>

\* The <<answer text, guess text>> pairs the two URLs serve in Spec.  The
\* first loads to the anagrams ab/ba (one of them after strip and casefold),
\* c and the non-heterogram aa; the second to the words a, b and c.
Corpus1 == << <<ab, <<"a", "a">> >>, << <<" ", "B", "a", " ">>, <<"c">> >> >>
Corpus2 == << << <<"a">>, <<"b">> >>, << <<"c">> >> >>
Corpora == {Corpus1}

\* the raw lines InitPipe builds answer lists from: the empty line, plain
\* words, a word with a repeated letter, and lines that need strip and
\* casefold
LinePool == { <<>>, <<"b">>, ab, <<"a", "a">>, <<" ", "A">>, <<"B", "a", " ">> }

\* every text of at most MaxLines lines of the pool
Texts == UNION {[1..n -> LinePool] : n \in 0..MaxLines}

\* the guess lists InitPipe pairs them with
PipeGuessTexts == { <<>>, << <<"c">>, <<"d">>, <<"e">>, <<"c", "c">> >> }

\* ------------------------------------------------------------ actions
\* last, before any step and after a step that is not an accessor call;
\* logged is the error the step wrote to the log, suppress what __exit__
\* returned
NoCall(op) ==
    [op |-> op, value_name |-> "", form |-> "", force |-> FALSE,
     raised |-> FALSE, ret |-> {}, invoked |-> <<>>, computed |-> <<>>,
     shelf_before |-> shelf, foreign_before |-> foreign,
     logged |-> "", suppress |-> FALSE]

\* how many entries of a log carry the name
CountOf(log, name) == Cardinality({i \in 1..Len(log) : log[i] = name})

\* how many computations of the name a call completed
Completed(computed, name) ==
    Cardinality({i \in 1..Len(computed) : computed[i].name = name})

\* the processes of the pool (cpu_count() of them)
Workers == {"w1", "w2"}

\* multiprocessing.cpu_count()
cpu_count == Cardinality(Workers)

\* no _collator_function call is being followed step by step
CollateIdle ==
    /\ combinations = {}
    /\ items = <<>>
    /\ chunksize = 0
    /\ cpc = "idle"
    /\ chunks = <<>>
    /\ next_task = 1
    /\ wpc = [w \in Workers |-> "new"]
    /\ wglobal = [w \in Workers |-> {}]
    /\ wtask = [w \in Workers |-> 0]
    /\ results = EmptyDict
    /\ merged = 0
    /\ working_result = EmptyDict
    /\ collated = EmptyDict

\* the state after construction: FiveWords.__init__, a new shelf file, an
\* empty functools.cache
InitStore(answer, guess) ==
    /\ answer_text = answer
    /\ guess_text = guess
    /\ shelf_state = "none"
    /\ shelf = EmptyDict
    /\ memo = EmptyDict
    /\ computes = [n \in ValueNames |-> 0]
    /\ ncalls = 0
    /\ foreign = {}
    /\ last = [op |-> "init", value_name |-> "", form |-> "", force |-> FALSE,
               raised |-> FALSE, ret |-> {}, invoked |-> <<>>, computed |-> <<>>,
               shelf_before |-> EmptyDict, foreign_before |-> {},
               logged |-> "", suppress |-> FALSE]

\* no navigable_map call is being followed step by step
NavIdle ==
    /\ npc = "idle"
    /\ nsource = ""
    /\ starting_points = <<>>
    /\ work_queue = <<>>
    /\ results_dict = EmptyDict
    /\ lookups = <<>>
    /\ nlast = [item |-> {}, parts |-> <<>>]
    /\ nerror = ""

InitWith(answer, guess) ==
    CollateIdle /\ NavIdle /\ order = "forward" /\ InitStore(answer, guess)

\* FiveWords.__enter__: shelve.open, on a new object or after __exit__
Enter ==
    /\ shelf_state \in {"none", "closed"}
    /\ shelf_state' = "open"
    /\ last' = NoCall("enter")
    /\ UNCHANGED <<answer_text, guess_text, shelf, memo, computes, ncalls, foreign>>
    /\ UNCHANGED <<cvars, nvars>>

\* the lines 130-132 write to the log
NoShelfOpen == "Five words exit method reached with no shelf open"

\* FiveWords.__exit__: close the shelf if self.shelf is a Shelf (closing a
\* closed shelf does nothing), else log an error; return False
Exit ==
    /\ shelf_state' = IF shelf_state = "none" THEN "none" ELSE "closed"
    /\ last' = [NoCall("exit") EXCEPT
                   !.logged = IF shelf_state = "none" THEN NoShelfOpen ELSE "",
                   !.suppress = FALSE]
    /\ UNCHANGED <<answer_text, guess_text, shelf, memo, computes, ncalls, foreign>>
    /\ UNCHANGED <<cvars, nvars>>

\* One accessor call, with everything it calls.  The clock is read as
\* advancing ncalls + 1 between two readings, so that the samples of
\* different calls differ.
Call(value_name, form, net) ==
    /\ ncalls < MaxCalls
    /\ \E r \in {accessor(value_name, form, CallState(net, ncalls + 1))} :
          /\ shelf' = r.shelf
          /\ memo' = r.memo
          /\ computes' = [n \in ValueNames |-> computes[n] + Completed(r.computed, n)]
          /\ foreign' = {n \in foreign : Completed(r.computed, n) = 0}
          /\ last' = [op |-> "call", value_name |-> value_name, form |-> form,
                      force |-> ForceOf(form), raised |-> r.raised,
                      ret |-> IF r.raised THEN {} ELSE r.ret,
                      invoked |-> r.invoked, computed |-> r.computed,
                      shelf_before |-> shelf, foreign_before |-> foreign,
                      logged |-> "", suppress |-> FALSE]
    /\ ncalls' = ncalls + 1
    /\ UNCHANGED <<answer_text, guess_text, shelf_state>>
    /\ UNCHANGED <<cvars, nvars>>

\* the word lists at the URLs change
ChangeCorpus ==
    /\ <<answer_text, guess_text>> = Corpus1
    /\ answer_text' = Corpus2[1]
    /\ guess_text' = Corpus2[2]
    /\ last' = NoCall("corpus")
    /\ UNCHANGED <<shelf_state, shelf, memo, computes, ncalls, foreign>>
    /\ UNCHANGED <<cvars, nvars>>

\* what a _times entry looks like: a list holding one sample
TimesList == <<0>>

\* Something other than a wrapper (another revision of the program, a
\* copied file) has left a list under five_word_map, the key at the top of
\* the pipeline that no other accessor reads, where a mapping is expected.
ForeignWrite ==
    /\ shelf_state = "none"
    /\ "five_word_map" \notin foreign
    /\ shelf' = DictSet(shelf, "five_word_map", TimesList)
    /\ foreign' = foreign \cup {"five_word_map"}
    /\ last' = NoCall("foreign")
    /\ UNCHANGED <<answer_text, guess_text, shelf_state, memo, computes, ncalls>>
    /\ UNCHANGED <<cvars, nvars>>

\* ------------------------------------------------------------ specifications
Init == \E c \in Corpora : InitWith(c[1], c[2])

AnyCall ==
    \E value_name \in CalledNames, form \in CallForms, net \in BOOLEAN :
        Call(value_name, form, net)

\* the accessors save_maps calls
MapNames == {"anagram_map", "two_word_map", "three_word_map", "four_word_map",
             "five_word_map"}

InitPipe == \E answer \in Texts, guess \in PipeGuessTexts : InitWith(answer, guess)

PipeCall == \E value_name \in MapNames : Call(value_name, "()", TRUE)

NextPipe == Enter \/ PipeCall

\* the pipeline over every bounded word list
SpecPipe == InitPipe /\ [][NextPipe]_vars

\* the store with the word lists fixed
NextFixed == Enter \/ AnyCall

SpecFixed == Init /\ [][NextFixed]_vars

NextForeign == Enter \/ AnyCall \/ ForeignWrite

\* the store opened on a shelf file that something else has written to
SpecForeign == Init /\ [][NextForeign]_vars

\* the store with word lists that may change between calls
Next == Enter \/ AnyCall \/ ChangeCorpus

Spec == Init /\ [][Next]_vars

\* the lines InitStages builds answer lists from: two-letter words, with
\* two anagrams (ab, ba) and a word (bc) that shares a letter with two others
StagePool == << ab, <<"b", "a">>, <<"c", "d">>, <<"e", "f">>, <<"g", "h">>,
                <<"i", "j">>, <<"b", "c">>, <<"k", "l">> >>

\* the answer lists of at most MaxStageWords lines of StagePool, in its order
StageTexts ==
    {SelectSeq(StagePool, LAMBDA word : word \in chosen) :
        chosen \in {c \in SUBSET {StagePool[i] : i \in DOMAIN StagePool} :
                         Cardinality(c) <= MaxStageWords}}

InitStages == \E answer \in StageTexts : InitWith(answer, <<>>)

\* the two stages that stand on two_word_map
StageCall ==
    \E value_name \in {"four_word_map", "five_word_map"} : Call(value_name, "()", TRUE)

NextStages == Enter \/ StageCall

\* the staged pipeline over word lists of equal-length words
SpecStages == InitStages /\ [][NextStages]_vars

NextLife == Enter \/ Exit \/ AnyCall

\* the store used inside and outside its open/close lifecycle
SpecLife == Init /\ [][NextLife]_vars

\* ------------------------------------------------ _collator_function, stepwise
\* the signatures InitCollate draws both collections from
SigPool == { {}, {"a"}, {"b"}, {"a", "c"}, {"b", "c"} }

\* the sequences that list the members of a set once each, in any order
Orders(set) ==
    {seq \in [1..Cardinality(set) -> set] : \A x \in set : \E i \in DOMAIN seq : seq[i] = x}

RECURSIVE _get_chunks(_, _)
\* concurrent.futures.process._get_chunks: consecutive slices of chunksize items
_get_chunks(seq, size) ==
    IF seq = <<>> THEN <<>>
    ELSE IF Len(seq) <= size THEN <<seq>>
    ELSE <<SubSeq(seq, 1, size)>> \o _get_chunks(SubSeq(seq, size + 1, Len(seq)), size)

\* n / w rounded up
CeilDiv(n, w) == (n + w - 1) \div w

\* the default chunksize computed as ceil(len(items) / cpu_count())
map_chunksize_ceil(n_items, given) ==
    IF given = 0 THEN CeilDiv(n_items, cpu_count) ELSE given

\* the chunksize _collator_function passes to executor.map (line 54)
map_chunksize(n_items, given) ==
    IF given = 0 THEN (n_items \div cpu_count) + 1 ELSE given

\* _process_chunk: [fn(item) for item in chunk], with the worker's global
_process_chunk(global_heterograms, chunk) ==
    [i \in 1..Len(chunk) |-> _work_function(global_heterograms, chunk[i])]

RECURSIVE merge_list_overwrite(_, _)
\* the for loop with working_result.update(update_dict): a key found again
\* replaces what was there
merge_list_overwrite(acc, update_dicts) ==
    IF update_dicts = <<>> THEN acc
    ELSE With(Head(update_dicts) @@ acc,
              LAMBDA updated : merge_list_overwrite(updated, Tail(update_dicts)))

RECURSIVE merge_list(_, _)
\* the for loop of _collator_function over one chunk's update_dicts, in order
merge_list(acc, update_dicts) ==
    IF update_dicts = <<>> THEN acc
    ELSE With(merge_update(acc, Head(update_dicts)),
              LAMBDA updated : merge_list(updated, Tail(update_dicts)))

\* _collator_function(combinations, items, chunksize) is called
InitCollate ==
    /\ InitStore(<<>>, <<>>)
    /\ NavIdle
    /\ order = "forward"
    /\ combinations \in {c \in SUBSET SigPool : Cardinality(c) <= MaxItems}
    /\ \E set \in {c \in SUBSET SigPool : Cardinality(c) <= MaxItems} :
          items \in Orders(set)
    /\ chunksize \in 0..MaxItems
    /\ cpc = "start"
    /\ chunks = <<>>
    /\ next_task = 1
    /\ wpc = [w \in Workers |-> "new"]
    /\ wglobal = [w \in Workers |-> {}]
    /\ wtask = [w \in Workers |-> 0]
    /\ results = EmptyDict
    /\ merged = 0
    /\ working_result = EmptyDict
    /\ collated = EmptyDict

\* executor.map: every chunk is submitted before the first result is awaited
Submit ==
    /\ cpc = "start"
    /\ chunks' = _get_chunks(items, map_chunksize(Len(items), chunksize))
    /\ cpc' = "merge"
    /\ UNCHANGED <<combinations, items, chunksize, next_task, wpc, wglobal, wtask,
                   results, merged, working_result, collated>>
    /\ UNCHANGED <<svars, nvars>>

\* _worker_init(combinations) in a new worker process
_worker_init(w) ==
    /\ cpc = "merge"
    /\ wpc[w] = "new"
    /\ wglobal' = [wglobal EXCEPT ![w] = combinations]
    /\ wpc' = [wpc EXCEPT ![w] = "idle"]
    /\ UNCHANGED <<combinations, items, chunksize, cpc, chunks, next_task, wtask,
                   results, merged, working_result, collated>>
    /\ UNCHANGED <<svars, nvars>>

\* an idle worker takes the next chunk off the call queue
WorkerTake(w) ==
    /\ wpc[w] = "idle"
    /\ next_task <= Len(chunks)
    /\ wtask' = [wtask EXCEPT ![w] = next_task]
    /\ next_task' = next_task + 1
    /\ wpc' = [wpc EXCEPT ![w] = "busy"]
    /\ UNCHANGED <<combinations, items, chunksize, cpc, chunks, wglobal,
                   results, merged, working_result, collated>>
    /\ UNCHANGED <<svars, nvars>>

\* a worker that removes the items of its chunk from global_heterograms
WorkerFinish_mutating(w) ==
    /\ wpc[w] = "busy"
    /\ results' = DictSet(results, wtask[w], _process_chunk(wglobal[w], chunks[wtask[w]]))
    /\ wglobal' = [wglobal EXCEPT
                      ![w] = @ \ {chunks[wtask[w]][i] : i \in DOMAIN chunks[wtask[w]]}]
    /\ wtask' = [wtask EXCEPT ![w] = 0]
    /\ wpc' = [wpc EXCEPT ![w] = "idle"]
    /\ UNCHANGED <<combinations, items, chunksize, cpc, chunks, next_task,
                   merged, working_result, collated>>
    /\ UNCHANGED <<svars, nvars>>

\* the worker finishes its chunk and sends the list of results back
WorkerFinish(w) ==
    /\ wpc[w] = "busy"
    /\ results' = DictSet(results, wtask[w], _process_chunk(wglobal[w], chunks[wtask[w]]))
    /\ wtask' = [wtask EXCEPT ![w] = 0]
    /\ wpc' = [wpc EXCEPT ![w] = "idle"]
    /\ UNCHANGED <<combinations, items, chunksize, cpc, chunks, next_task, wglobal,
                   merged, working_result, collated>>
    /\ UNCHANGED <<svars, nvars>>

\* the for loop consumes the next chunk's results, which executor.map
\* yields in submission order as soon as that chunk is finished
Merge ==
    /\ cpc = "merge"
    /\ merged < Len(chunks)
    /\ merged + 1 \in DOMAIN results
    /\ working_result' = merge_list(working_result, results[merged + 1])
    /\ merged' = merged + 1
    /\ UNCHANGED <<combinations, items, chunksize, cpc, chunks, next_task, wpc,
                   wglobal, wtask, results, collated>>
    /\ UNCHANGED <<svars, nvars>>

\* a return that does not wait for the loop to end
Return_early ==
    /\ cpc = "merge"
    /\ collated' = working_result
    /\ cpc' = "done"
    /\ UNCHANGED <<combinations, items, chunksize, chunks, next_task, wpc, wglobal,
                   wtask, results, merged, working_result>>
    /\ UNCHANGED <<svars, nvars>>

\* the loop is over: freeze working_result and return it
Return ==
    /\ cpc = "merge"
    /\ merged = Len(chunks)
    /\ collated' = working_result
    /\ cpc' = "done"
    /\ UNCHANGED <<combinations, items, chunksize, chunks, next_task, wpc, wglobal,
                   wtask, results, merged, working_result>>
    /\ UNCHANGED <<svars, nvars>>

NextCollate ==
    \/ Submit
    \/ \E w \in Workers : _worker_init(w)
    \/ \E w \in Workers : WorkerTake(w)
    \/ \E w \in Workers : WorkerFinish(w)
    \/ Merge
    \/ Return

\* one stepwise run of _collator_function over every bounded input
SpecCollate == InitCollate /\ [][NextCollate]_vars

\* ------------------------------------------------ navigable_map, stepwise
\* The orders in which this process iterates a set or the keys of a dict:
\* the order Python gives is fixed for one process and differs between
\* processes (hash randomisation), so it is drawn once, at the start.
IterOrders == {"forward", "reversed"}

RECURSIVE SetToSeq(_)
\* the members of a set, once each, in one fixed order
SetToSeq(set) ==
    IF set = {} THEN <<>>
    ELSE LET x == CHOOSE y \in set : TRUE
         IN <<x>> \o SetToSeq(set \ {x})

\* the sequence read from its end
Reverse(seq) == [i \in 1..Len(seq) |-> seq[Len(seq) + 1 - i]]

\* iterating a set in this process
iter(set, ord) == IF ord = "forward" THEN SetToSeq(set) ELSE Reverse(SetToSeq(set))

RECURSIVE chain(_)
\* the sequences of a sequence, one after another
chain(seqs) == IF seqs = <<>> THEN <<>> ELSE Head(seqs) \o chain(Tail(seqs))

\* the generator that yields only the first part of every pair
parts_of_first_only(item_values, ord) ==
    [i \in 1..Cardinality(item_values) |-> iter(iter(item_values, ord)[i], ord)[1]]

\* (part for pair in item_values for part in pair), line 214
parts_of(item_values, ord) ==
    chain([i \in 1..Cardinality(item_values) |-> iter(iter(item_values, ord)[i], ord)])

\* deque.extendleft(iterable): each element in turn is put at the left end
extendleft(queue, seq) == Reverse(seq) \o queue

\* lookup_dict (lines 197-203): cardinality -> the accessor to ask
lookup_dict ==
    (5 :> "anagram_map") @@ (10 :> "two_word_map") @@ (15 :> "three_word_map")
        @@ (20 :> "four_word_map") @@ (25 :> "five_word_map")

\* a visited test that never finds the item
visited_never(item, visited_map) == FALSE

\* item in results_dict (line 209)
visited(item, visited_map) == item \in DOMAIN visited_map

\* what an accessor call made by navigable_map leaves in the store
NavStore(value_name, r) ==
    /\ shelf' = r.shelf
    /\ memo' = r.memo
    /\ computes' = [n \in ValueNames |-> computes[n] + Completed(r.computed, n)]
    /\ foreign' = {n \in foreign : Completed(r.computed, n) = 0}
    /\ last' = [op |-> "call", value_name |-> value_name, form |-> "()",
                force |-> FALSE, raised |-> r.raised,
                ret |-> IF r.raised THEN {} ELSE r.ret,
                invoked |-> r.invoked, computed |-> r.computed,
                shelf_before |-> shelf, foreign_before |-> foreign,
                logged |-> "", suppress |-> FALSE]
    /\ UNCHANGED <<answer_text, guess_text, shelf_state, ncalls>>

\* navigable_map(starting_points), lines 197-206: up to the first test of
\* the while loop
navigable_map(starting) ==
    /\ npc = "idle"
    /\ npc' = "loop"
    /\ nsource' = "navigable_map"
    /\ starting_points' = iter(starting, order)
    /\ work_queue' = iter(starting, order)
    /\ results_dict' = EmptyDict
    /\ UNCHANGED <<order, lookups, nlast, nerror>>
    /\ UNCHANGED <<svars, cvars>>

\* save_navigable_result (line 218) up to the first test of the while loop:
\* navigable_map(self.five_word_map().keys())
save_navigable_result ==
    /\ npc = "idle"
    /\ \E r \in {five_word_map("()", CallState(TRUE, 1))} :
          /\ NavStore("five_word_map", r)
          /\ IF r.raised
             THEN /\ npc' = "raised"
                  /\ nerror' = "Error"
                  /\ starting_points' = <<>>
                  /\ work_queue' = <<>>
             ELSE /\ npc' = "loop"
                  /\ nerror' = ""
                  /\ starting_points' = iter(DOMAIN r.ret, order)
                  /\ work_queue' = iter(DOMAIN r.ret, order)
    /\ nsource' = "save_navigable_result"
    /\ results_dict' = EmptyDict
    /\ UNCHANGED <<order, lookups, nlast>>
    /\ UNCHANGED cvars

\* one pass of the while loop (lines 207-214)
navigable_loop ==
    /\ npc = "loop"
    /\ work_queue # <<>>
    /\ LET item == work_queue[Len(work_queue)]
           rest == SubSeq(work_queue, 1, Len(work_queue) - 1)
           item_len == Cardinality(item)
       IN IF visited(item, results_dict)
          THEN /\ work_queue' = rest
               /\ UNCHANGED <<npc, results_dict, lookups, nlast, nerror>>
               /\ UNCHANGED svars
          ELSE IF item_len \notin DOMAIN lookup_dict
          THEN /\ work_queue' = rest
               /\ npc' = "raised"
               /\ nerror' = "KeyError"
               /\ UNCHANGED <<results_dict, lookups, nlast>>
               /\ UNCHANGED svars
          ELSE \E r \in {accessor(lookup_dict[item_len], "()", CallState(TRUE, 1))} :
                 /\ NavStore(lookup_dict[item_len], r)
                 /\ IF r.raised
                    THEN /\ work_queue' = rest
                         /\ npc' = "raised"
                         /\ nerror' = "Error"
                         /\ UNCHANGED <<results_dict, lookups, nlast>>
                    ELSE IF item \notin DOMAIN r.ret
                    THEN /\ work_queue' = rest
                         /\ npc' = "raised"
                         /\ nerror' = "KeyError"
                         /\ UNCHANGED <<results_dict, lookups, nlast>>
                    ELSE /\ results_dict' = DictSet(results_dict, item, r.ret[item])
                         /\ lookups' = Append(lookups, item)
                         /\ IF item_len > 5
                            THEN /\ work_queue' =
                                        extendleft(rest, parts_of(r.ret[item], order))
                                 /\ nlast' = [item |-> item,
                                              parts |-> parts_of(r.ret[item], order)]
                            ELSE /\ work_queue' = rest
                                 /\ UNCHANGED nlast
                         /\ UNCHANGED <<npc, nerror>>
    /\ UNCHANGED <<order, nsource, starting_points>>
    /\ UNCHANGED cvars

\* the queue is empty: return results_dict (line 215)
navigable_return ==
    /\ npc = "loop"
    /\ work_queue = <<>>
    /\ npc' = "done"
    /\ UNCHANGED <<order, nsource, starting_points, work_queue, results_dict, lookups,
                   nlast, nerror>>
    /\ UNCHANGED <<svars, cvars>>

\* five-letter words: five that share no letter, an anagram of the first,
\* and a sixth that shares letters with the first only
abcde == <<"a", "b", "c", "d", "e">>
bacde == <<"b", "a", "c", "d", "e">>
fghij == <<"f", "g", "h", "i", "j">>
klmno == <<"k", "l", "m", "n", "o">>
pqrst == <<"p", "q", "r", "s", "t">>
uvwxy == <<"u", "v", "w", "x", "y">>
abcdz == <<"a", "b", "c", "d", "z">>
\* a ten-letter word
abcdefghij == <<"a", "b", "c", "d", "e", "f", "g", "h", "i", "j">>

\* The <<answer text, guess text>> pairs of SpecNav: five-letter words
\* with two five-word combinations; one-letter words; a blank line beside a
\* ten-letter word; a blank line beside five-letter words.
NavCorpora ==
    { << <<abcde, bacde, fghij, klmno>>, <<pqrst, uvwxy, abcdz>> >>,
      << << <<"a">>, <<"b">>, <<"c">> >>, << <<"d">>, <<"e">> >> >>,
      << << <<>>, abcdefghij >>, <<>> >>,
      << << abcde, <<>> >>, <<fghij>> >> }

\* the keys of the maps the pipeline produces for the word lists served
StageKeys ==
    LET anagram_keys ==
            DOMAIN anagrams_of(heterograms_of(
                       _combined_word_set(_load_wordlist_url(answer_text),
                                          _load_wordlist_url(guess_text))))
        two_keys == DOMAIN _collator_function(anagram_keys, anagram_keys)
        three_keys == DOMAIN _collator_function(two_keys, anagram_keys)
        four_keys == DOMAIN _collator_function(two_keys, two_keys)
        five_keys == DOMAIN _collator_function(four_keys, anagram_keys)
    IN anagram_keys \cup two_keys \cup three_keys \cup four_keys \cup five_keys

RECURSIVE SubsetsUpTo(_, _)
\* the subsets of at most n members
SubsetsUpTo(set, n) ==
    IF n = 0 THEN {{}}
    ELSE LET smaller == SubsetsUpTo(set, n - 1)
         IN smaller \cup {sub \cup {x} : sub \in smaller, x \in set}

InitNav ==
    \E c \in NavCorpora, ord \in IterOrders :
        CollateIdle /\ NavIdle /\ order = ord /\ InitStore(c[1], c[2])

\* navigable_map called with some keys of the stage maps
NavStart ==
    /\ npc = "idle"
    /\ \E starting \in SubsetsUpTo(StageKeys, MaxStart) : navigable_map(starting)

NextNav == Enter \/ NavStart \/ save_navigable_result \/ navigable_loop
               \/ navigable_return

\* navigable_map over the stage maps of the pipeline
SpecNav == InitNav /\ [][NextNav]_vars

\* ------------------------------------------------------------ properties
\* the keys of the four stage maps
StageNames == {"two_word_map", "three_word_map", "four_word_map", "five_word_map"}

\* the record is an unordered pair of disjoint components whose union is k
PairRecordOk(k, pr) ==
    \E a \in pr, b \in pr :
        /\ pr = {a, b}
        /\ a \cap b = {}
        /\ a \cup b = k
        /\ Cardinality(k) = Cardinality(a) + Cardinality(b)

\* C1: in every stage map the store holds, every PairRecord under key k has
\* components a and b with a and b disjoint, a \cup b = k and |k| = |a| + |b|.
C1_PairRecordsDisjoint ==
    \A name \in StageNames \cap DOMAIN shelf :
        \A k \in DOMAIN shelf[name] :
            \A pr \in shelf[name][k] : PairRecordOk(k, pr)

\* five_word_map holds a five-letter key made of two different components
C1_Witness ==
    /\ "five_word_map" \in DOMAIN shelf
    /\ \E k \in DOMAIN shelf["five_word_map"] :
          /\ Cardinality(k) = 5
          /\ \E pr \in shelf["five_word_map"][k] : Cardinality(pr) = 2

\* the outer collection as a set
ItemSet == {items[i] : i \in DOMAIN items}

\* the <<outer, inner>> pairs of disjoint signatures
DisjointPairs == {q \in ItemSet \X combinations : q[1] \cap q[2] = {}}

\* C2: the map _collator_function returns has exactly the unions of the
\* disjoint (item, combination) pairs as keys, and under key u exactly the
\* unordered pairs {s1, s2} with s1 an item, s2 a combination, s1 and s2
\* disjoint and s1 \cup s2 = u (one record per unordered pair, also when
\* both collections are the same).
C2_CollatorContract ==
    cpc = "done" =>
        /\ DOMAIN collated = {q[1] \cup q[2] : q \in DisjointPairs}
        /\ \A u \in DOMAIN collated :
              collated[u] = {{q[1], q[2]} : q \in {d \in DisjointPairs : d[1] \cup d[2] = u}}

\* a finished run over one collection used as both operands, with a pair of
\* two different signatures in the result
C2_Witness ==
    /\ cpc = "done"
    /\ ItemSet = combinations
    /\ Cardinality(ItemSet) = 2
    /\ \E u \in DOMAIN collated : \E pr \in collated[u] : Cardinality(pr) = 2

\* the items of the chunks the coordinator has merged so far
ItemsMerged ==
    {chunks[c][i] : <<c, i>> \in {ci \in (1..merged) \X (1..Len(items)) :
                                      ci[2] <= Len(chunks[ci[1]])}}

\* C3: for every chunk size, partition and finishing order, what the
\* coordinator has accumulated equals one sequential, non-partitioned run of
\* the engine over the items of the chunks merged so far (nothing merged is
\* ever overwritten), and the map returned equals the sequential run over
\* all items.
C3_MapReduceEquivalence ==
    /\ cpc \in {"merge", "done"} =>
          working_result = _collator_function(combinations, ItemsMerged)
    /\ cpc = "done" => collated = _collator_function(combinations, ItemSet)

\* a finished run in which two chunks found the same key through different
\* PairRecords
C3_Witness ==
    /\ cpc = "done"
    /\ Len(chunks) = 2
    /\ \E u \in DOMAIN collated :
          /\ u \in DOMAIN results[1][1]
          /\ u \in DOMAIN results[2][1]
          /\ results[1][1][u] # results[2][1][u]
          /\ Cardinality(collated[u]) = 2

\* the last step was an accessor call that returned
Returned == last.op = "call" /\ ~last.raised

\* C4: a call that returns, made with force=true or while its key was
\* absent from the store, has invoked its compute function exactly once and
\* the store holds that result under the key; a call made with the key
\* present and force=false has invoked no compute function and changed no
\* store entry.
C4_ComputeIffForcedOrAbsent ==
    Returned =>
        IF last.force \/ last.value_name \notin DOMAIN last.shelf_before
        THEN /\ CountOf(last.invoked, last.value_name) = 1
             /\ \E i \in DOMAIN last.computed :
                   /\ last.computed[i].name = last.value_name
                   /\ shelf[last.value_name] = last.computed[i].value
        ELSE /\ last.invoked = <<>>
             /\ shelf = last.shelf_before

\* C5: every accessor call that returns, returns the value the store holds
\* under its key at that moment.
C5_ReturnsStoredValue == Returned => last.ret = shelf[last.value_name]

\* the state a new call would run in, with the network up
Now == CallState(TRUE, 1)

\* what the uncached wrapper returns for the value_name with force=True
ForcedValue(value_name) == wrapper_body(value_name, TRUE, Now).ret

\* C6: with the word lists fixed, a call with force=false that is served
\* from what is cached (its compute function does not run) returns the
\* value a fresh force=true computation of that stage returns.
C6_Idempotent ==
    (Returned /\ ~last.force /\ CountOf(last.invoked, last.value_name) = 0) =>
        last.ret = ForcedValue(last.value_name)

\* a cached, non-empty stage map was returned without computing
C6_Witness ==
    /\ Returned
    /\ ~last.force
    /\ last.invoked = <<>>
    /\ last.value_name = "two_word_map"
    /\ DOMAIN last.ret # {}

\* a is an initial segment of b
IsPrefix(a, b) == Len(a) <= Len(b) /\ SubSeq(b, 1, Len(a)) = a

\* C7: for every key, <key>_times holds one sample per completed
\* computation of the key; a step appends one sample per computation it
\* completed and leaves the earlier samples as they were; and whenever key is
\* in the store, <key>_times is in the store and not empty.
C7_TimesAppendOnly ==
    \A n \in ValueNames :
        LET t == DictGet(shelf, times_value(n), <<>>)
            before == DictGet(last.shelf_before, times_value(n), <<>>)
        IN /\ Len(t) = computes[n]
           /\ IsPrefix(before, t)
           /\ Len(t) = Len(before) + Completed(last.computed, n)
           /\ n \in DOMAIN shelf => (times_value(n) \in DOMAIN shelf /\ Len(t) >= 1)

\* a second computation of a key has appended a second, different sample
C7_Witness ==
    \E n \in ValueNames :
        /\ times_value(n) \in DOMAIN shelf
        /\ Len(shelf[times_value(n)]) = 2
        /\ shelf[times_value(n)][1] # shelf[times_value(n)][2]
        /\ Completed(last.computed, n) = 1

\* the value_names whose accessors the func of value_name calls, directly
\* or through them
Upstream(value_name) ==
    CASE value_name \in {"answer_words", "allowed_guess_words"} -> {}
      [] value_name = "all_words_set" -> {"answer_words", "allowed_guess_words"}
      [] value_name = "heterogram_set" ->
             {"answer_words", "allowed_guess_words", "all_words_set"}
      [] value_name = "anagram_map" ->
             {"answer_words", "allowed_guess_words", "all_words_set", "heterogram_set"}
      [] value_name \in {"two_word_map"} ->
             {"answer_words", "allowed_guess_words", "all_words_set", "heterogram_set",
              "anagram_map"}
      [] value_name \in {"three_word_map", "four_word_map"} ->
             {"answer_words", "allowed_guess_words", "all_words_set", "heterogram_set",
              "anagram_map", "two_word_map"}
      [] value_name = "five_word_map" ->
             {"answer_words", "allowed_guess_words", "all_words_set", "heterogram_set",
              "anagram_map", "two_word_map", "four_word_map"}

\* the store keys whose entry differs between two store states
Changed(before, after) ==
    {k \in DOMAIN before \cup DOMAIN after :
        \/ k \notin DOMAIN before
        \/ k \notin DOMAIN after
        \/ before[k] # after[k]}

\* the value_names a forced call may compute: its own and the upstream ones
\* that were absent from the store
MayCompute(value_name, before) ==
    {value_name} \cup {u \in Upstream(value_name) : u \notin DOMAIN before}

\* C8: a call stage(force=true) changes only the entries and timing logs of
\* the stage itself and of upstream stages that were absent from the store,
\* and invokes no other compute function: every stage derived from it and
\* every upstream stage already present is left as it was.
C8_ForceDoesNotCascade ==
    (last.op = "call" /\ last.force) =>
        LET may == MayCompute(last.value_name, last.shelf_before)
        IN /\ Changed(last.shelf_before, shelf)
                 \subseteq (may \cup {times_value(n) : n \in may})
           /\ \A i \in DOMAIN last.invoked : last.invoked[i] \in may

\* anagram_map was forced with its upstream stage and a derived stage in
\* the store: it alone was computed, for the second time
C8_Witness ==
    /\ Returned
    /\ last.force
    /\ last.value_name = "anagram_map"
    /\ last.invoked = <<"anagram_map">>
    /\ "heterogram_set" \in DOMAIN last.shelf_before
    /\ "two_word_map" \in DOMAIN last.shelf_before
    /\ Len(shelf["anagram_map_times"]) = 2

\* C9: an accessor call that reads a stored value which does not have the
\* structural type expected for its key fails instead of returning it.
C9_MisshapedReadFails ==
    (last.op = "call" /\ ~last.force /\ last.value_name \in last.foreign_before) =>
        last.raised

\* the word set the two lists load to
CorpusWords == _load_wordlist_url(answer_text) \cup _load_wordlist_url(guess_text)

\* some character occurs twice in the word
HasRepeat(word) == \E i, j \in DOMAIN word : i < j /\ word[i] = word[j]

\* C10: a corpus word with a repeated character is under no key of
\* anagram_map, a corpus word without one is under the key equal to its
\* character set, and every word under key k is a corpus word whose character
\* set is k.
C10_AnagramMapExact ==
    "anagram_map" \in DOMAIN shelf =>
        LET m == shelf["anagram_map"]
        IN /\ \A word \in CorpusWords :
                 IF HasRepeat(word)
                 THEN \A k \in DOMAIN m : word \notin m[k]
                 ELSE frozenset(word) \in DOMAIN m /\ word \in m[frozenset(word)]
           /\ \A k \in DOMAIN m :
                 \A word \in m[k] : frozenset(word) = k /\ word \in CorpusWords

\* anagram_map holds a class of two anagrams, and the corpus a word with a
\* repeated character
C10_Witness ==
    /\ "anagram_map" \in DOMAIN shelf
    /\ \E k \in DOMAIN shelf["anagram_map"] : Cardinality(shelf["anagram_map"][k]) = 2
    /\ \E word \in CorpusWords : HasRepeat(word)

\* C14: in every stage map the store holds, every PairRecord has two
\* different components (no signature is paired with itself), whatever the
\* lines of the word lists are.
C14_NoSelfPair ==
    \A name \in StageNames \cap DOMAIN shelf :
        \A k \in DOMAIN shelf[name] :
            \A pr \in shelf[name][k] : Cardinality(pr) = 2

\* every word of the corpus has the same length, which is not zero
SameNonZeroLength ==
    \A word \in CorpusWords :
        Len(word) > 0 /\ \A other \in CorpusWords : Len(other) = Len(word)

\* the sets of five pairwise letter-disjoint signatures of anagram_map
FiveDisjoint ==
    {five \in SUBSET DOMAIN shelf["anagram_map"] :
        /\ Cardinality(five) = 5
        /\ \A a \in five, b \in five : a # b => a \cap b = {}}

\* C11: for a corpus whose words all have the same non-zero length, the
\* keys of five_word_map are exactly the unions of five pairwise
\* letter-disjoint signatures of anagram_map.
C11_FiveWordKeys ==
    ("five_word_map" \in DOMAIN shelf /\ SameNonZeroLength) =>
        DOMAIN shelf["five_word_map"] = {UNION five : five \in FiveDisjoint}

\* five_word_map has two keys over a corpus in which two signatures share a
\* letter
C11_Witness ==
    /\ "five_word_map" \in DOMAIN shelf
    /\ SameNonZeroLength
    /\ Cardinality(DOMAIN shelf["five_word_map"]) = 2
    /\ \E a \in DOMAIN shelf["anagram_map"], b \in DOMAIN shelf["anagram_map"] :
          a # b /\ a \cap b # {}

\* some worker is running a chunk
SomeBusy == \E w \in Workers : wpc[w] = "busy"

C16_DefaultChunkIsCeil ==
    (chunksize = 0 /\ cpc \in {"merge", "done"}) =>
        /\ map_chunksize(Len(items), chunksize) = CeilDiv(Len(items), cpu_count)
        /\ \A c \in DOMAIN chunks : Len(chunks[c]) <= CeilDiv(Len(items), cpu_count)

\* C16 as amended: when chunksize is None the pool cuts the outer
\* collection into consecutive chunks of floor(n / w) + 1 items, the last
\* chunk holding the rest.
C16_DefaultChunkIsFloorPlusOne ==
    (chunksize = 0 /\ cpc \in {"merge", "done"}) =>
        LET size == (Len(items) \div cpu_count) + 1
        IN /\ Len(chunks) = CeilDiv(Len(items), size)
           /\ \A c \in DOMAIN chunks :
                 chunks[c] = SubSeq(items, (c - 1) * size + 1,
                                    IF c * size < Len(items) THEN c * size ELSE Len(items))

\* as many items as workers, submitted with chunksize None, ended up in one
\* chunk
C16_Witness ==
    /\ chunksize = 0
    /\ cpc = "done"
    /\ Len(items) = cpu_count
    /\ Len(chunks) = 1
    /\ Len(chunks[1]) = Len(items)

\* C19: once _worker_init has run in a worker, its global_heterograms is the
\* inner collection given to the pool, in every later state; and a worker
\* finishing a chunk changes nothing but its own results: not the inner or
\* outer collection, not any worker's global_heterograms, not the
\* coordinator's accumulated map.
C19_WorkersMutateNothingShared ==
    /\ [](\A w \in Workers : wpc[w] # "new" => wglobal[w] = combinations)
    /\ [][(\E w \in Workers : wpc[w] = "busy" /\ wpc'[w] = "idle") =>
             UNCHANGED <<combinations, items, chunks, wglobal, working_result,
                         merged, collated>>]_vars

\* both workers are initialised with a non-empty inner collection; one has
\* delivered a chunk while the other is computing
C19_Witness ==
    /\ combinations # {}
    /\ \A w \in Workers : wpc[w] # "new"
    /\ SomeBusy
    /\ results # EmptyDict

\* navigable_map has returned
NavReturned == npc = "done"

\* the starting points as a set
StartingSet == {starting_points[i] : i \in DOMAIN starting_points}

\* the words of the corpus that anagram_map classifies
Heterograms == {word \in CorpusWords : ~HasRepeat(word)}

\* the letter sets of the tuples of Cardinality(sig) / 5 pairwise
\* letter-disjoint words whose letters union to exactly sig, every word read
\* as its letter set
TupleSignatures(sig) ==
    {tuple \in SubsetsUpTo({frozenset(word) : word \in Heterograms},
                           Cardinality(sig) \div 5) :
        /\ Cardinality(tuple) = Cardinality(sig) \div 5
        /\ UNION tuple = sig
        /\ \A a \in tuple, b \in tuple : a # b => a \cap b = {}}

Splits(item_values) ==
    UNION {{q \in pr \X pr : {q[1], q[2]} = pr} : pr \in item_values}

RECURSIVE Leaves(_)
\* the sets of one-word signatures the result leads to from sig: sig itself
\* when it is one word (or not in the result), else the leaves of both
\* components of each of its PairRecords, put together
Leaves(sig) ==
    IF Cardinality(sig) <= 5 \/ sig \notin DOMAIN results_dict THEN {{sig}}
    ELSE UNION {{x \cup y : x \in Leaves(q[1]), y \in Leaves(q[2])} :
                q \in Splits(results_dict[sig])}

C13_ComponentsShrink ==
    \A i \in DOMAIN nlast.parts :
        Cardinality(nlast.parts[i]) < Cardinality(nlast.item)

\* the components of the PairRecords the stage map selected by the
\* cardinality of sig holds for sig; none for a one-word signature or for a
\* signature no stage map holds
Components(sig) ==
    IF /\ Cardinality(sig) \in DOMAIN lookup_dict
       /\ Cardinality(sig) > 5
       /\ lookup_dict[Cardinality(sig)] \in DOMAIN shelf
       /\ sig \in DOMAIN shelf[lookup_dict[Cardinality(sig)]]
    THEN UNION shelf[lookup_dict[Cardinality(sig)]][sig]
    ELSE {}

RECURSIVE Reach(_, _)
\* the signatures reached from frontier by following components
Reach(frontier, seen) ==
    IF frontier = {} THEN seen
    ELSE LET found == UNION {Components(sig) : sig \in frontier}
         IN Reach(found \ seen, seen \cup found)

\* C17: no signature is looked up twice; and when navigable_map returns, the
\* keys of its result are exactly the signatures reachable from the starting
\* points by following PairRecord components, both components of every
\* PairRecord of a key of more than one word are keys, each key is mapped to
\* the value its stage map holds, and every key was looked up once.
C17_ResultIsClosure ==
    /\ \A i \in DOMAIN lookups, j \in DOMAIN lookups : i # j => lookups[i] # lookups[j]
    /\ NavReturned =>
          /\ DOMAIN results_dict = Reach(StartingSet, StartingSet)
          /\ {lookups[i] : i \in DOMAIN lookups} = DOMAIN results_dict
          /\ \A k \in DOMAIN results_dict :
                /\ Cardinality(k) \in DOMAIN lookup_dict
                /\ k \in DOMAIN shelf[lookup_dict[Cardinality(k)]]
                /\ results_dict[k] = shelf[lookup_dict[Cardinality(k)]][k]
                /\ Cardinality(k) > 5 =>
                      \A pr \in results_dict[k] : pr \subseteq DOMAIN results_dict

\* navigable_map returned a result in which a signature is a component of
\* two different keys
C17_Witness ==
    /\ NavReturned
    /\ \E k \in DOMAIN results_dict :
          \E p1 \in DOMAIN results_dict, p2 \in DOMAIN results_dict :
              /\ p1 # p2
              /\ k \in Components(p1)
              /\ k \in Components(p2)

\* C18: navigable_map started from the keys of five_word_map never fails
\* on a lookup: no pop ends in a KeyError, neither in lookup_dict nor in the
\* stage map selected.
C18_NoLookupFailure ==
    nsource = "save_navigable_result" => nerror # "KeyError"

\* C20: use outside the open/close lifecycle is merely logged: __exit__
\* reached with no shelf open raises nothing and returns False, and an
\* accessor called while the store is not open does not raise.
C20_MisuseMerelyLogged ==
    /\ last.op = "exit" => (~last.raised /\ ~last.suppress)
    /\ (last.op = "call" /\ shelf_state # "open") => ~last.raised

\* C20 as amended: __exit__ always returns False and raises nothing; reached
\* with no shelf open it logs an error and changes nothing, else it leaves the
\* shelf closed.  An accessor called while the store is not open computes
\* nothing and leaves the store as it was, and it raises unless the very same
\* call was answered before, in which case the remembered value is returned.
C20_ExitLoggedAccessorRaises ==
    /\ last.op = "exit" =>
          /\ ~last.raised
          /\ ~last.suppress
          /\ shelf = last.shelf_before
          /\ IF shelf_state = "none" THEN last.logged = NoShelfOpen
             ELSE shelf_state = "closed" /\ last.logged = ""
    /\ (last.op = "call" /\ shelf_state # "open") =>
          /\ last.invoked = <<>>
          /\ shelf = last.shelf_before
          /\ last.raised <=> <<last.value_name, last.form>> \notin DOMAIN memo

\* an accessor called after __exit__ raised, although the same accessor had
\* been answered while the store was open
C20_Witness ==
    /\ last.op = "call"
    /\ shelf_state = "closed"
    /\ last.raised
    /\ \E form \in CallForms : <<last.value_name, form>> \in DOMAIN memo

====
